---- MODULE Spec2Model ----
(***************************************************************************)
(* A model of the training script of modded-nanogpt (src/src/train.py,     *)
(* src/src/utils.py): the DistributedDataLoader, the generator             *)
(* range_with_first_and_last, and the distributed training loop.           *)
(*                                                                         *)
(* The specifications of the module:                                       *)
(*   SpecReader  one DistributedDataLoader object of any rank, driven by   *)
(*               arbitrary calls of reset, advance and next_batch;         *)
(*   SpecRanks   two DistributedDataLoader objects of distinct ranks over  *)
(*               the same files, driven in the same way;                   *)
(*   SpecRange   the generator range_with_first_and_last(total), resumed   *)
(*               until it returns;                                         *)
(*   SpecShards  one DistributedDataLoader object constructed over any     *)
(*               files, corrupt ones included, driven in the same way;     *)
(*   Spec        the script itself, one process per rank, from the         *)
(*               configuration assertions to the final barrier;            *)
(*   SpecFair    the script with every process kept running;               *)
(*   SpecConfig  the script under any batch sizes and validation budget,   *)
(*               the configurations it rejects included.                   *)
(* A token is identified by the file it comes from and its index in that   *)
(* file; a batch by the file and the index range of its slice.             *)
(***************************************************************************)
EXTENDS Integers, Sequences, FiniteSets, TLC

\* ------------------------------------------------------------------ bounds
MaxProcs == 2       \* world sizes 1..MaxProcs
MaxShards == 2      \* number of files matched by the pattern
MaxTok == 9         \* token count of a shard
MaxBT == 2          \* B and T each range over 1..MaxBT in SpecReader
MaxTrace == 6       \* batches recorded after a reset
MaxTotal == 13      \* argument of range_with_first_and_last in SpecRange
MaxIter == 3        \* num_iterations
MaxEvery == 2       \* val_loss_every and save_every
MaxAcc == 2         \* train_accumulation_steps
MaxDevBatch == 5    \* device_batch_size in SpecConfig
MaxBatch == 10      \* batch_size and val_tokens in SpecConfig

\* --------------------------------------------------------- program constants
MAGIC == 20240520
VERSION == 1
VAL_SCALING == 4

VARIABLES
    \* SpecReader
    loader,     \* a DistributedDataLoader object
    trace,      \* the batches it served since the last reset()
    last,       \* the last call made on it, with the state it was made in
    \* SpecRanks
    readers,    \* rank -> DistributedDataLoader object, for two ranks of a world
    pass,       \* rank -> the batches of its latest traversal of a shard
    \* SpecRange
    total,      \* argument of the generator
    gen,        \* suspension point of the generator
    yielded,    \* pairs yielded so far
    \* Spec
    args,           \* the Hyperparameters of the run
    ddp_world_size, \* WORLD_SIZE
    pc,             \* rank -> the section of the script the process is at
    step,           \* rank -> step of the for loop
    train_loader,   \* rank -> the train DistributedDataLoader
    val_loader,     \* rank -> the validation DistributedDataLoader
    xy,             \* rank -> the batch held in x, y
    it,             \* rank -> the generator of the accumulation loop
    ev,             \* rank -> what the process has done so far, in order
    issued,         \* rank -> the collectives the process has called, in order
    saved           \* the checkpoint files written, in order

readerVars == <<loader, trace, last>>
ranksVars == <<readers, pass>>
rangeVars == <<total, gen, yielded>>
loopVars == <<args, ddp_world_size, pc, step, train_loader, val_loader, xy, it, ev,
              issued, saved>>
vars == <<loader, trace, last, readers, pass, total, gen, yielded,
          args, ddp_world_size, pc, step, train_loader, val_loader, xy, it, ev,
          issued, saved>>

\* ------------------------------------------------------------- shard files
\* A file of the corpus: its place in the sorted glob result, the three header
\* fields the code reads, and the number of uint16 tokens that follow the header.
ShardFile(name, magic, version, ntok, len) ==
    [name |-> name, magic |-> magic, version |-> version, ntok |-> ntok, len |-> len]

\* _peek_data_shard: header only; exit(1) on a bad magic, assert on the version.
PeekDataShard(f) ==
    [ok |-> f.magic = MAGIC /\ f.version = VERSION, ntok |-> f.ntok]

LoadDataShardAnyLength(f) ==
    [ok |-> f.magic = MAGIC /\ f.version = VERSION,
     tokens |-> [name |-> f.name, len |-> f.len]]
\* _load_data_shard: header asserts, then all the tokens; asserts the length.
LoadDataShard(f) ==
    [ok |-> f.magic = MAGIC /\ f.version = VERSION /\ f.len = f.ntok,
     tokens |-> [name |-> f.name, len |-> f.len]]

NoTokens == [name |-> 0, len |-> 0]

RECURSIVE PeekAllLast(_, _, _)
PeekAllLast(files, i, minTok) ==
    IF i > Len(files) THEN [ok |-> TRUE, ntok_total |-> 0]
    ELSE LET p == PeekDataShard(files[i])
             rest == PeekAllLast(files, i + 1, minTok)
         IN  IF ~p.ok \/ ~(p.ntok >= minTok)
             THEN [ok |-> FALSE, ntok_total |-> 0]
             ELSE [ok |-> rest.ok,
                   ntok_total |-> IF i = Len(files) THEN p.ntok ELSE rest.ntok_total]

RECURSIVE PeekAll(_, _, _)
\* the loop of __init__ over self.files: every header peeked and the size
\* assertion, summing ntok_total; ok is FALSE as soon as one of them fails.
PeekAll(files, i, minTok) ==
    IF i > Len(files) THEN [ok |-> TRUE, ntok_total |-> 0]
    ELSE LET p == PeekDataShard(files[i])
             rest == PeekAll(files, i + 1, minTok)
         IN  IF ~p.ok \/ ~(p.ntok >= minTok)
             THEN [ok |-> FALSE, ntok_total |-> 0]
             ELSE [ok |-> rest.ok, ntok_total |-> p.ntok + rest.ntok_total]

\* ------------------------------------------------- DistributedDataLoader
\* current_shard is the 0-based index of the code; files is a 1-based sequence.
StartPositionZero(self) == 0
\* the offset a rank starts a shard at (reset and advance)
StartPosition(self) == self.process_rank * self.B * self.T

StrideOneRank(self) == self.B * self.T
\* what next_batch adds to current_position
Stride(self) == self.B * self.T * self.num_processes

Failed(self) == [self EXCEPT !.status = "failed"]

\* the three assignments reset() and advance() share
SetShard(self, shard) ==
    LET l == LoadDataShard(self.files[shard + 1])
    IN  IF ~l.ok THEN Failed([self EXCEPT !.current_shard = shard,
                                          !.current_position = StartPosition(self)])
        ELSE [self EXCEPT !.current_shard = shard,
                          !.current_position = StartPosition(self),
                          !.tokens = l.tokens]

ResetKeepShard(self) == SetShard(self, self.current_shard)
\* reset(): shard 0, the rank's start offset, shard 0 loaded
Reset(self) == SetShard(self, 0)

\* advance(): the next shard cyclically, the rank's start offset, that shard loaded
Advance(self) == SetShard(self, (self.current_shard + 1) % Len(self.files))

\* __init__: the files matched (sorted), the headers peeked, then reset()
DataLoaderInit(files, B_, T_, process_rank, num_processes) ==
    LET self == [process_rank |-> process_rank, num_processes |-> num_processes,
                 B |-> B_, T |-> T_, files |-> files, ntok_total |-> 0,
                 current_shard |-> 0, current_position |-> 0,
                 tokens |-> NoTokens, status |-> "ok"]
    IN  IF Len(files) = 0 THEN Failed(self)
        ELSE LET p == PeekAll(files, 1, num_processes * B_ * T_ + 1)
             IN  IF ~p.ok THEN Failed(self)
                 ELSE Reset([self EXCEPT !.ntok_total = p.ntok_total])

WrapConditionNoTarget(self, position) ==
    position + self.B * self.T * self.num_processes > self.tokens.len
WrapConditionGeq(self, position) ==
    position + (self.B * self.T * self.num_processes + 1) >= self.tokens.len
\* the test of next_batch on the advanced position
WrapCondition(self, position) ==
    position + (self.B * self.T * self.num_processes + 1) > self.tokens.len

\* next_batch(): the slice tokens[pos : pos+B*T+1] (a Python slice stops at the
\* end of the buffer), x and y as (B, T) views of it (view raises unless the
\* slice holds B*T+1 tokens), the position advanced, the shard advanced if needed.
\* The batch is the file and the index sets of the slice, of x and of y.
NextBatch(self) ==
    LET pos == self.current_position
        n == self.B * self.T
        buf == {i \in pos..(pos + n) : i < self.tokens.len}
        batch == [shard |-> self.tokens.name, start |-> pos, buf |-> buf,
                  x |-> {i \in buf : i < pos + n}, y |-> {i \in buf : i > pos}]
        moved == [self EXCEPT !.current_position = pos + Stride(self)]
    IN  IF Cardinality(buf) # n + 1
        THEN [self |-> Failed(self), batch |-> batch, ok |-> FALSE]
        ELSE [self |-> IF WrapCondition(moved, moved.current_position)
                       THEN Advance(moved) ELSE moved,
              batch |-> batch, ok |-> TRUE]

RECURSIVE BatchesFrom(_, _)
\* the batches of n successive next_batch() calls on a reader in state self
BatchesFrom(self, n) ==
    IF n = 0 \/ self.status # "ok" THEN <<>>
    ELSE CHOOSE bs \in {<<res.batch>> \o BatchesFrom(res.self, n - 1) :
                            res \in {NextBatch(self)}} : TRUE

\* the reader of the same configuration, just constructed
Cold(self) ==
    DataLoaderInit(self.files, self.B, self.T, self.process_rank, self.num_processes)

RECURSIVE AfterBatches(_, _)
\* the reader after n successive next_batch() calls
AfterBatches(self, n) ==
    IF n = 0 \/ self.status # "ok" THEN self
    ELSE CHOOSE after \in {AfterBatches(res.self, n - 1) :
                               res \in {NextBatch(self)}} : TRUE

\* ---------------------------------------------------------------- SpecReader
NoBatch == [shard |-> 0, start |-> 0, buf |-> {}, x |-> {}, y |-> {}]
NoPass == [shard |-> 0, batches |-> {}, fresh |-> FALSE]
\* where a reader stands: its shard and its offset (NoWhere: just constructed)
Where(self) == [shard |-> self.current_shard, position |-> self.current_position]
NoWhere == [shard |-> -1, position |-> -1]
NoTrace == [valid |-> FALSE, batches |-> <<>>, from |-> NoWhere]
NoLoader == DataLoaderInit(<<>>, 0, 0, 0, 0)

\* the files a pattern can match: sorted, every header valid, every declared
\* count the physical count and large enough for the constructor's assertion
ValidShardSets(minTok) ==
    UNION {{[i \in 1..n |-> ShardFile(i, MAGIC, VERSION, toks[i], toks[i])] :
              toks \in [1..n -> minTok..MaxTok]} : n \in 1..MaxShards}

\* pairs of distinct ranks of a world of num_processes
RankPairs(num_processes) ==
    {rs \in SUBSET (0..(num_processes - 1)) : Cardinality(rs) = 2}

IdleReader == loader = NoLoader /\ trace = NoTrace /\ last = <<>>
IdleRanks == readers = <<>> /\ pass = <<>>
IdleRange == total = 0 /\ gen = [pc |-> "idle", i |-> 0] /\ yielded = <<>>
IdleLoop ==
    /\ args = <<>> /\ ddp_world_size = 0 /\ pc = <<>> /\ step = <<>>
    /\ train_loader = <<>> /\ val_loader = <<>> /\ xy = <<>> /\ it = <<>>
    /\ ev = <<>> /\ issued = <<>> /\ saved = <<>>

InitReader ==
    /\ \E num_processes \in 1..MaxProcs, B_ \in 1..MaxBT, T_ \in 1..MaxBT :
         \E files \in ValidShardSets(num_processes * B_ * T_ + 1),
            r \in 0..(num_processes - 1) :
           /\ loader = DataLoaderInit(files, B_, T_, r, num_processes)
           /\ trace = [valid |-> TRUE, batches |-> <<>>, from |-> NoWhere]
           /\ last = [op |-> "init", pre |-> NoLoader, batch |-> NoBatch]
    /\ IdleRanks
    /\ IdleRange
    /\ IdleLoop

\* a call of reset()
CallReset ==
    /\ loader.status = "ok"
    /\ loader' = Reset(loader)
    /\ trace' = [valid |-> TRUE, batches |-> <<>>, from |-> Where(loader)]
    /\ last' = [op |-> "reset", pre |-> loader, batch |-> NoBatch]
    /\ UNCHANGED <<ranksVars, rangeVars, loopVars>>

\* a call of advance()
CallAdvance ==
    /\ loader.status = "ok"
    /\ loader' = Advance(loader)
    /\ trace' = NoTrace
    /\ last' = [op |-> "advance", pre |-> loader, batch |-> NoBatch]
    /\ UNCHANGED <<ranksVars, rangeVars, loopVars>>

\* a call of next_batch()
CallNextBatch ==
    /\ loader.status = "ok"
    /\ LET res == NextBatch(loader)
       IN  /\ loader' = res.self
           /\ trace' = IF trace.valid /\ Len(trace.batches) < MaxTrace
                       THEN [trace EXCEPT !.batches = Append(@, res.batch)]
                       ELSE NoTrace
           /\ last' = [op |-> "next_batch", pre |-> loader, batch |-> res.batch]
    /\ UNCHANGED <<ranksVars, rangeVars, loopVars>>

NextReader == CallReset \/ CallAdvance \/ CallNextBatch

SpecReader == InitReader /\ [][NextReader]_vars

\* ---------------------------------------------------------------- SpecShards
\* a file as the pattern may match it: sound, with a bad magic, with a bad
\* version, with fewer or more tokens than its header declares, or too small
ShardKinds(name, minTok) ==
    {ShardFile(name, MAGIC, VERSION, n, n) : n \in {minTok, minTok + 2}}
      \cup {ShardFile(name, MAGIC + 1, VERSION, minTok, minTok),
             ShardFile(name, MAGIC, VERSION + 1, minTok, minTok),
             ShardFile(name, MAGIC, VERSION, minTok, minTok - 1),
             ShardFile(name, MAGIC, VERSION, minTok, minTok + 1),
             ShardFile(name, MAGIC, VERSION, minTok - 1, minTok - 1)}

\* the files a pattern can match, the empty match included
AnyShardSets(minTok) ==
    UNION {{files \in [1..n -> UNION {ShardKinds(i, minTok) : i \in 1..n}] :
              \A i \in 1..n : files[i].name = i} : n \in 0..MaxShards}

\* a reader constructed over any files, then driven by arbitrary calls until
\* one of them fails
InitShards ==
    /\ \E num_processes \in 1..MaxProcs :
         \E files \in AnyShardSets(num_processes + 1),
            r \in 0..(num_processes - 1) :
           /\ loader = DataLoaderInit(files, 1, 1, r, num_processes)
           /\ trace = [valid |-> TRUE, batches |-> <<>>, from |-> NoWhere]
           /\ last = [op |-> "init", pre |-> NoLoader, batch |-> NoBatch]
    /\ IdleRanks
    /\ IdleRange
    /\ IdleLoop

SpecShards == InitShards /\ [][NextReader]_vars

\* ----------------------------------------------------------------- SpecRanks
InitRanks ==
    /\ \E num_processes \in 2..MaxProcs, B_ \in 1..MaxBT, T_ \in 1..MaxBT :
         \E files \in ValidShardSets(num_processes * B_ * T_ + 1),
            rs \in RankPairs(num_processes) :
           /\ readers = [r \in rs |-> DataLoaderInit(files, B_, T_, r, num_processes)]
           /\ pass = [r \in rs |-> NoPass]
    /\ IdleReader
    /\ IdleRange
    /\ IdleLoop

\* rank r calls reset()
RankReset(r) ==
    /\ readers[r].status = "ok"
    /\ readers' = [readers EXCEPT ![r] = Reset(readers[r])]
    /\ pass' = [pass EXCEPT ![r] = NoPass]
    /\ UNCHANGED <<readerVars, rangeVars, loopVars>>

\* rank r calls advance()
RankAdvance(r) ==
    /\ readers[r].status = "ok"
    /\ readers' = [readers EXCEPT ![r] = Advance(readers[r])]
    /\ pass' = [pass EXCEPT ![r] = NoPass]
    /\ UNCHANGED <<readerVars, rangeVars, loopVars>>

\* rank r calls next_batch(); the batch joins the rank's traversal of the shard
\* it was taken from, which starts anew after the call has advanced the shard
RankNextBatch(r) ==
    /\ readers[r].status = "ok"
    /\ LET res == NextBatch(readers[r])
           wrapped == res.self.current_position
                        # readers[r].current_position + Stride(readers[r])
       IN  /\ readers' = [readers EXCEPT ![r] = res.self]
           /\ pass' = [pass EXCEPT ![r] =
                  [shard |-> res.batch.shard,
                   batches |-> (IF pass[r].fresh THEN {} ELSE pass[r].batches)
                                 \cup {res.batch},
                   fresh |-> wrapped]]
    /\ UNCHANGED <<readerVars, rangeVars, loopVars>>

NextRanks ==
    \/ \E r \in DOMAIN readers : RankReset(r)
    \/ \E r \in DOMAIN readers : RankAdvance(r)
    \/ \E r \in DOMAIN readers : RankNextBatch(r)

SpecRanks == InitRanks /\ [][NextRanks]_vars

\* ----------------------------------------------------------------- SpecRange
NewGenerator == [pc |-> "start", i |-> 0]
Flags(is_first, is_last) == [is_first |-> is_first, is_last |-> is_last]

GenResumeOneMore(total_, g) ==
    CASE g.pc = "start" ->
           IF total_ = 0 THEN [gen |-> [pc |-> "done", i |-> 0], out |-> <<>>]
           ELSE IF total_ = 1
           THEN [gen |-> [pc |-> "single", i |-> 0], out |-> <<Flags(TRUE, TRUE)>>]
           ELSE [gen |-> [pc |-> "first", i |-> 0], out |-> <<Flags(TRUE, FALSE)>>]
      [] g.pc \in {"first", "middle"} ->
           IF g.i < total_ - 1
           THEN [gen |-> [pc |-> "middle", i |-> g.i + 1], out |-> <<Flags(FALSE, FALSE)>>]
           ELSE [gen |-> [pc |-> "last", i |-> g.i], out |-> <<Flags(FALSE, TRUE)>>]
      [] OTHER -> [gen |-> [pc |-> "done", i |-> g.i], out |-> <<>>]
\* range_with_first_and_last(total), resumed from the suspension point g: run
\* to the next yield (out holds the pair) or to the return (out is empty).
\* pc names the yield the generator is suspended at; i counts the iterations
\* of its for loop that have yielded.
GenResume(total_, g) ==
    CASE g.pc = "start" ->
           IF total_ = 0 THEN [gen |-> [pc |-> "done", i |-> 0], out |-> <<>>]
           ELSE IF total_ = 1
           THEN [gen |-> [pc |-> "single", i |-> 0], out |-> <<Flags(TRUE, TRUE)>>]
           ELSE [gen |-> [pc |-> "first", i |-> 0], out |-> <<Flags(TRUE, FALSE)>>]
      [] g.pc \in {"first", "middle"} ->
           IF g.i < total_ - 2
           THEN [gen |-> [pc |-> "middle", i |-> g.i + 1], out |-> <<Flags(FALSE, FALSE)>>]
           ELSE [gen |-> [pc |-> "last", i |-> g.i], out |-> <<Flags(FALSE, TRUE)>>]
      [] OTHER -> [gen |-> [pc |-> "done", i |-> g.i], out |-> <<>>]

InitRange ==
    /\ total \in 0..MaxTotal
    /\ gen = NewGenerator
    /\ yielded = <<>>
    /\ IdleReader
    /\ IdleRanks
    /\ IdleLoop

\* the consumer asks the generator for its next pair
GenNext ==
    /\ gen.pc # "done"
    /\ gen' = GenResume(total, gen).gen
    /\ yielded' = yielded \o GenResume(total, gen).out
    /\ UNCHANGED <<total, readerVars, ranksVars, loopVars>>

NextRange == GenNext

SpecRange == InitRange /\ [][NextRange]_vars

\* ---------------------------------------------------------------------- Spec
\* The script, run by ddp_world_size processes. A process acts only when every
\* collective it has called has been joined by all the others (a collective
\* blocks until then); everything else it does is local.
Procs == 0..(ddp_world_size - 1)
MasterProcess(p) == p = 0
B == args.device_batch_size
T == args.sequence_length
ConfigOkValOnly == args.val_tokens % (B * T * ddp_world_size) = 0
\* the two assertions on the configuration
ConfigOk ==
    /\ args.val_tokens % (B * T * ddp_world_size) = 0
    /\ args.batch_size % (B * ddp_world_size) = 0
val_steps == args.val_tokens \div (B * T * ddp_world_size)
\* batch_size // (B * ddp_world_size)
AccumulationSteps(batch_size, device_batch_size, world_size) ==
    batch_size \div (device_batch_size * world_size)
train_accumulation_steps == AccumulationSteps(args.batch_size, B, ddp_world_size)

LastStepNever(s) == FALSE
\* last_step
LastStep(s) == s = args.num_iterations

ValTriggerNoLast(s) == args.val_loss_every > 0 /\ s % args.val_loss_every = 0
\* the condition of the validation section
ValTrigger(s) ==
    LastStep(s) \/ (args.val_loss_every > 0 /\ s % args.val_loss_every = 0)

SaveTriggerAnyRank(p, s) ==
    LastStep(s) \/ (args.save_every > 0 /\ s % args.save_every = 0)
\* the condition of the checkpoint section
SaveTrigger(p, s) ==
    MasterProcess(p)
      /\ (LastStep(s) \/ (args.save_every > 0 /\ s % args.save_every = 0))

SyncAlways(is_last) == TRUE
\* no_sync_except_last: TRUE when gradients are synchronised in the block
\* (nullcontext), FALSE when they are not (no_sync)
NoSyncExceptLast(is_last) == is_last

RankConditionalBarrier == <<"barrier">>
\* the collectives called inside the "if master_process" blocks: none
RankConditionalCollectives == <<>>

TrainTailStepFirst ==
    <<"optimizer_step", "clip_grad_norm", "zero_grad", "scheduler_step">>
\* what follows the accumulation loop, in order
TrainTail == <<"clip_grad_norm", "optimizer_step", "zero_grad", "scheduler_step">>

\* run_id is set on the master process only
RunId(p) == IF MasterProcess(p) THEN "uuid" ELSE "undefined"

Ev(e, s) == [e |-> e, step |-> s, is_first |-> FALSE, is_last |-> FALSE,
             sync |-> FALSE, batch |-> NoBatch]
EvBatch(e, s, batch) == [Ev(e, s) EXCEPT !.batch = batch]
EvSeq(names, s) == [k \in 1..Len(names) |-> Ev(names[k], s)]
BatchEvents(e, s, batches) == [k \in 1..Len(batches) |-> EvBatch(e, s, batches[k])]

\* every collective p has called has been called by all, in the same place
Ready(p) ==
    \A q \in Procs :
        /\ Len(issued[q]) >= Len(issued[p])
        /\ \A k \in 1..Len(issued[p]) : issued[q][k] = issued[p][k]

\* the corpus of a run, for a reader whose ranks together take stride tokens
\* per batch: a shard that serves two batches to a rank, then a shard of the
\* minimum size
Corpus(stride) ==
    <<ShardFile(1, MAGIC, VERSION, 2 * stride + 1, 2 * stride + 1),
      ShardFile(2, MAGIC, VERSION, stride + 1, stride + 1)>>

Init ==
    /\ ddp_world_size \in 1..MaxProcs
    /\ \E num_iterations \in 1..MaxIter, val_loss_every \in 0..MaxEvery,
          save_every \in 0..MaxEvery, acc \in 1..MaxAcc :
         args = [input_bin |-> Corpus(VAL_SCALING * ddp_world_size),
                 input_val_bin |-> Corpus(ddp_world_size),
                 batch_size |-> acc * VAL_SCALING * ddp_world_size,
                 device_batch_size |-> VAL_SCALING,
                 sequence_length |-> 1,
                 num_iterations |-> num_iterations,
                 val_loss_every |-> val_loss_every,
                 val_tokens |-> VAL_SCALING * ddp_world_size,
                 save_every |-> save_every]
    /\ pc = [p \in Procs |-> "configure"]
    /\ step = [p \in Procs |-> 0]
    /\ train_loader = [p \in Procs |-> NoLoader]
    /\ val_loader = [p \in Procs |-> NoLoader]
    /\ xy = [p \in Procs |-> NoBatch]
    /\ it = [p \in Procs |-> NewGenerator]
    /\ ev = [p \in Procs |-> <<>>]
    /\ issued = [p \in Procs |-> <<>>]
    /\ saved = <<>>
    /\ IdleReader
    /\ IdleRanks
    /\ IdleRange

At(p, where) == pc[p] = where /\ Ready(p)
Goto(p, where) == pc' = [pc EXCEPT ![p] = where]
Did(p, events) == ev' = [ev EXCEPT ![p] = @ \o events]
Called(p, collectives) == issued' = [issued EXCEPT ![p] = @ \o collectives]
otherVars == <<readerVars, ranksVars, rangeVars>>

\* the two assertions on the configuration and the derived step counts
Configure(p) ==
    /\ At(p, "configure")
    /\ Goto(p, IF ConfigOk THEN "load_tokens" ELSE "fatal")
    /\ UNCHANGED <<args, ddp_world_size, step, train_loader, val_loader, xy, it, ev,
                   issued, saved, otherVars>>

\* the two readers are constructed, the train one first
LoadTokens(p) ==
    /\ At(p, "load_tokens")
    /\ LET tl == DataLoaderInit(args.input_bin, B, T, p, ddp_world_size)
           vl == DataLoaderInit(args.input_val_bin, B \div VAL_SCALING, T, p,
                                ddp_world_size)
       IN  /\ train_loader' = [train_loader EXCEPT ![p] = tl]
           /\ val_loader' = [val_loader EXCEPT ![p] =
                                IF tl.status = "ok" THEN vl ELSE NoLoader]
           /\ Goto(p, IF tl.status = "ok" /\ vl.status = "ok"
                      THEN "setup" ELSE "fatal")
    /\ UNCHANGED <<args, ddp_world_size, step, xy, it, ev, issued, saved, otherVars>>

\* from the model to the start of the loop: x, y are fetched from the train
\* reader, the model is wrapped, the log is begun, the train reader is reset
Setup(p) ==
    /\ At(p, "setup")
    /\ LET res == NextBatch(train_loader[p])
           tl == IF res.ok THEN Reset(res.self) ELSE res.self
       IN  /\ train_loader' = [train_loader EXCEPT ![p] = tl]
           /\ xy' = [xy EXCEPT ![p] = res.batch]
           /\ Did(p, <<EvBatch("next_batch", 0, res.batch), Ev("train_reset", 0)>>)
           /\ Goto(p, IF tl.status = "ok" THEN "for_step" ELSE "fatal")
    /\ UNCHANGED <<args, ddp_world_size, step, val_loader, it, issued, saved,
                   otherVars>>

ForStepSharedReader(p) ==
    /\ At(p, "for_step")
    /\ IF step[p] < args.num_iterations
       THEN LET s == step[p] + 1
                n == val_steps * VAL_SCALING
                vl == Reset(val_loader[p])
                after == AfterBatches(vl, n)
            IN  /\ step' = [step EXCEPT ![p] = s]
                /\ IF ValTrigger(s)
                   THEN /\ val_loader' = [val_loader EXCEPT ![p] = after]
                        /\ train_loader' = [train_loader EXCEPT ![p] = Reset(@)]
                        /\ Did(p, <<Ev("val_reset", s)>>
                                    \o BatchEvents("val_forward", s, BatchesFrom(vl, n))
                                    \o <<Ev("all_reduce", s)>>)
                        /\ Called(p, <<"all_reduce">>)
                        /\ Goto(p, IF after.status = "ok" THEN "checkpoint" ELSE "fatal")
                   ELSE /\ Goto(p, "checkpoint")
                        /\ UNCHANGED <<train_loader, val_loader, ev, issued>>
       ELSE /\ Goto(p, "cleanup")
            /\ UNCHANGED <<step, train_loader, val_loader, ev, issued>>
    /\ UNCHANGED <<args, ddp_world_size, xy, it, saved, otherVars>>

\* the head of "for step in range(1, num_iterations + 1)" and the validation
\* section up to its all_reduce: the validation reader is reset,
\* val_steps * VAL_SCALING batches are read and evaluated, the loss is reduced
ForStep(p) ==
    /\ At(p, "for_step")
    /\ IF step[p] < args.num_iterations
       THEN LET s == step[p] + 1
                n == val_steps * VAL_SCALING
                vl == Reset(val_loader[p])
                after == AfterBatches(vl, n)
            IN  /\ step' = [step EXCEPT ![p] = s]
                /\ IF ValTrigger(s)
                   THEN /\ val_loader' = [val_loader EXCEPT ![p] = after]
                        /\ Did(p, <<Ev("val_reset", s)>>
                                    \o BatchEvents("val_forward", s, BatchesFrom(vl, n))
                                    \o <<Ev("all_reduce", s)>>)
                        /\ Called(p, <<"all_reduce">>)
                        /\ Goto(p, IF after.status = "ok" THEN "checkpoint" ELSE "fatal")
                   ELSE /\ Goto(p, "checkpoint")
                        /\ UNCHANGED <<val_loader, ev, issued>>
       ELSE /\ Goto(p, "cleanup")
            /\ UNCHANGED <<step, val_loader, ev, issued>>
    /\ UNCHANGED <<args, ddp_world_size, train_loader, xy, it, saved, otherVars>>

\* after the all_reduce of a validation pass the loss is averaged and, on the
\* master, logged; then the checkpoint section, then the break on the last step
CheckpointSection(p) ==
    /\ At(p, "checkpoint")
    /\ LET logged == IF ValTrigger(step[p]) /\ MasterProcess(p)
                     THEN <<Ev("val_log", step[p])>> ELSE <<>>
           logCalls == IF ValTrigger(step[p]) /\ MasterProcess(p)
                       THEN RankConditionalCollectives ELSE <<>>
       IN  IF SaveTrigger(p, step[p])
           THEN /\ saved' = Append(saved, [path |-> <<RunId(p), step[p]>>,
                                           step |-> step[p], writer |-> p])
                /\ Did(p, logged \o <<Ev("save", step[p])>>)
                /\ Called(p, logCalls \o RankConditionalCollectives)
           ELSE /\ saved' = saved
                /\ Did(p, logged)
                /\ Called(p, logCalls)
    /\ IF LastStep(step[p])
       THEN Goto(p, "cleanup") /\ it' = it
       ELSE Goto(p, "micro_step") /\ it' = [it EXCEPT ![p] = NewGenerator]
    /\ UNCHANGED <<args, ddp_world_size, step, train_loader, val_loader, xy,
                   otherVars>>

\* one iteration of the accumulation loop: the forward pass on x, y, the next
\* x, y fetched, the backward pass, which reduces the gradients across the
\* replicas unless it runs under no_sync
MicroStep(p) ==
    /\ At(p, "micro_step")
    /\ LET r == GenResume(train_accumulation_steps, it[p])
       IN  /\ r.out # <<>>
           /\ LET flags == r.out[1]
                  sync == NoSyncExceptLast(flags.is_last)
                  res == NextBatch(train_loader[p])
              IN  /\ it' = [it EXCEPT ![p] = r.gen]
                  /\ train_loader' = [train_loader EXCEPT ![p] = res.self]
                  /\ xy' = [xy EXCEPT ![p] = res.batch]
                  /\ Did(p, <<[Ev("forward", step[p]) EXCEPT
                                  !.is_first = flags.is_first,
                                  !.is_last = flags.is_last, !.batch = xy[p]],
                              EvBatch("next_batch", step[p], res.batch),
                              [Ev("backward", step[p]) EXCEPT
                                  !.is_first = flags.is_first,
                                  !.is_last = flags.is_last, !.sync = sync]>>
                            \o (IF sync THEN <<Ev("grad_reduce", step[p])>> ELSE <<>>))
                  /\ Called(p, IF sync THEN <<"grad_reduce">> ELSE <<>>)
                  /\ Goto(p, IF res.self.status = "ok" THEN "micro_step" ELSE "fatal")
    /\ UNCHANGED <<args, ddp_world_size, step, val_loader, saved, otherVars>>

\* the accumulation loop is over: clipping, optimizer and scheduler, then the
\* logging of the master
TrainUpdate(p) ==
    /\ At(p, "micro_step")
    /\ GenResume(train_accumulation_steps, it[p]).out = <<>>
    /\ it' = [it EXCEPT ![p] = GenResume(train_accumulation_steps, it[p]).gen]
    /\ Did(p, EvSeq(TrainTail, step[p]))
    /\ Called(p, IF MasterProcess(p) THEN RankConditionalCollectives ELSE <<>>)
    /\ Goto(p, "for_step")
    /\ UNCHANGED <<args, ddp_world_size, step, train_loader, val_loader, xy, saved,
                   otherVars>>

FinalBarrierMasterOnly(p) == IF MasterProcess(p) THEN <<"barrier">> ELSE <<>>
\* dist.barrier() of the clean-up, called by every process
FinalBarrier(p) == <<"barrier">>

\* after the loop: the master prints the peak memory, every process calls the
\* barrier
Cleanup(p) ==
    /\ At(p, "cleanup")
    /\ Did(p, EvSeq(FinalBarrier(p), step[p]))
    /\ Called(p, (IF MasterProcess(p) THEN RankConditionalCollectives ELSE <<>>)
                   \o FinalBarrier(p))
    /\ Goto(p, "teardown")
    /\ UNCHANGED <<args, ddp_world_size, step, train_loader, val_loader, xy, it,
                   saved, otherVars>>

\* after the barrier: the process group is destroyed
Teardown(p) ==
    /\ At(p, "teardown")
    /\ Did(p, <<Ev("destroy_process_group", step[p])>>)
    /\ Goto(p, "done")
    /\ UNCHANGED <<args, ddp_world_size, step, train_loader, val_loader, xy, it,
                   issued, saved, otherVars>>

Next ==
    \/ \E p \in Procs : Configure(p)
    \/ \E p \in Procs : LoadTokens(p)
    \/ \E p \in Procs : Setup(p)
    \/ \E p \in Procs : ForStep(p)
    \/ \E p \in Procs : CheckpointSection(p)
    \/ \E p \in Procs : MicroStep(p)
    \/ \E p \in Procs : TrainUpdate(p)
    \/ \E p \in Procs : Cleanup(p)
    \/ \E p \in Procs : Teardown(p)

Spec == Init /\ [][Next]_vars

\* the processes are separate operating-system processes, each of which keeps
\* running: as long as some process can take a step, some step is taken
\* The script under any configuration, the rejected ones included: the batch
\* sizes and the validation budget are free, the run is two steps long with an
\* evaluation at each
InitConfig ==
    /\ ddp_world_size \in 1..MaxProcs
    /\ \E device_batch_size \in 1..MaxDevBatch, batch_size \in 1..MaxBatch,
          val_tokens \in 1..MaxBatch :
         args = [input_bin |-> Corpus(device_batch_size * ddp_world_size),
                 input_val_bin |->
                     Corpus((device_batch_size \div VAL_SCALING) * ddp_world_size),
                 batch_size |-> batch_size,
                 device_batch_size |-> device_batch_size,
                 sequence_length |-> 1,
                 num_iterations |-> 2,
                 val_loss_every |-> 1,
                 val_tokens |-> val_tokens,
                 save_every |-> 0]
    /\ pc = [p \in Procs |-> "configure"]
    /\ step = [p \in Procs |-> 0]
    /\ train_loader = [p \in Procs |-> NoLoader]
    /\ val_loader = [p \in Procs |-> NoLoader]
    /\ xy = [p \in Procs |-> NoBatch]
    /\ it = [p \in Procs |-> NewGenerator]
    /\ ev = [p \in Procs |-> <<>>]
    /\ issued = [p \in Procs |-> <<>>]
    /\ saved = <<>>
    /\ IdleReader
    /\ IdleRanks
    /\ IdleRange

SpecConfig == InitConfig /\ [][Next]_vars

\* (the runs of SpecFair take the two cadences equal; Spec combines them freely)
InitFair == Init /\ args.save_every = args.val_loss_every
SpecFair == InitFair /\ [][Next]_vars /\ WF_vars(Next)

\* ------------------------------------------------------------ claims C1..C3
SameShardPairs ==
    {pr \in (DOMAIN readers) \X (DOMAIN readers) :
        /\ pr[1] # pr[2]
        /\ pass[pr[1]].shard # 0
        /\ pass[pr[1]].shard = pass[pr[2]].shard}

\* C1 as stated: within one traversal of a shard, the slices tokens[offset :
\* offset + B*T + 1] read by two distinct ranks share no token index.
C1_SlicesDisjoint ==
    \A pr \in SameShardPairs :
        \A a \in pass[pr[1]].batches, b \in pass[pr[2]].batches :
            a.buf \cap b.buf = {}

\* C1 amended: within one traversal of a shard, the input index ranges
\* offset..offset+B*T-1 of two distinct ranks are disjoint, and two slices of
\* B*T+1 tokens share at most one index, which is the last (target-only) index
\* of one slice and the first index of the other.
C1_InputsDisjoint ==
    \A pr \in SameShardPairs :
        \A a \in pass[pr[1]].batches, b \in pass[pr[2]].batches :
            /\ a.x \cap b.x = {}
            /\ \A i \in a.buf \cap b.buf :
                  \/ (i \notin a.x /\ i = b.start)
                  \/ (i \notin b.x /\ i = a.start)
            /\ Cardinality(a.buf \cap b.buf) <= 1

C1_Witness ==
    \E pr \in SameShardPairs :
        /\ Cardinality(pass[pr[1]].batches) >= 2
        /\ Cardinality(pass[pr[2]].batches) >= 2
        /\ \E a \in pass[pr[1]].batches, b \in pass[pr[2]].batches :
              a.buf \cap b.buf # {}

\* the call of next_batch just made on a reader that survived it
AfterNextBatch == last.op = "next_batch" /\ loader.status = "ok"
NewOffset == last.pre.current_position
               + last.pre.B * last.pre.T * last.pre.num_processes
Advanced == loader.current_position # NewOffset

\* C2 as stated: after next_batch has taken its batch and added
\* B*T*num_processes to the offset, advance() is called if and only if this
\* rank's next read, B*T+1 tokens from the new offset, would pass the end of
\* the loaded shard.
C2_WrapOnOwnRead ==
    AfterNextBatch =>
        (Advanced <=> NewOffset + last.pre.B * last.pre.T + 1 > last.pre.tokens.len)

\* C2 amended: the batch is the slice at the offset the call started from, in
\* the shard loaded then; advance() is called if and only if
\* new offset + B*T*num_processes + 1 > length of the loaded shard, and then
\* the reader stands at the start offset of the cyclically next shard;
\* otherwise it stands at the new offset of the same shard.
C2_WrapAfterFullStride ==
    AfterNextBatch =>
        LET pre == last.pre
        IN  /\ last.batch.shard = pre.tokens.name
            /\ last.batch.start = pre.current_position
            /\ IF NewOffset + pre.B * pre.T * pre.num_processes + 1 > pre.tokens.len
               THEN /\ loader.current_shard = (pre.current_shard + 1) % Len(pre.files)
                    /\ loader.current_position = pre.process_rank * pre.B * pre.T
                    /\ loader.tokens.name = pre.files[loader.current_shard + 1].name
               ELSE /\ loader.current_shard = pre.current_shard
                    /\ loader.current_position = NewOffset
                    /\ loader.tokens = pre.tokens

\* a wrap although the rank's own next read would still fit in the shard
C2_Witness ==
    /\ AfterNextBatch
    /\ Advanced
    /\ NewOffset + last.pre.B * last.pre.T + 1 <= last.pre.tokens.len
    /\ Len(last.pre.files) = 2

\* C3: the batches served since a reset(), by next_batch() calls alone, are
\* those a just constructed reader of the same rank serves, whatever position
\* the reader had reached when reset() was called.
C3_ResetDeterminism ==
    (trace.valid /\ loader.status = "ok") =>
        trace.batches = BatchesFrom(Cold(loader), Len(trace.batches))

\* a reset() called in the middle of the second shard, followed by batches
\* that cross into the second shard again
C3_Witness ==
    /\ trace.valid
    /\ trace.from.shard = 1
    /\ trace.from.position > loader.process_rank * loader.B * loader.T
    /\ Len(trace.batches) >= 3
    /\ \E i \in 1..Len(trace.batches) : trace.batches[i].shard = 2

\* ------------------------------------------------------------------ claim C6
\* C6: range_with_first_and_last(N) yields exactly N pairs (none for N = 0);
\* the pair with is_first is the first one and no other, the pair with is_last
\* is the N-th one and no other, so for N = 1 the only pair is (True, True).
C6_RangeFlags ==
    /\ Len(yielded) <= total
    /\ \A k \in 1..Len(yielded) :
          /\ yielded[k].is_first <=> (k = 1)
          /\ yielded[k].is_last <=> (k = total)
    /\ gen.pc = "done" => Len(yielded) = total

C6_Witness ==
    /\ gen.pc = "done"
    /\ total >= 4
    /\ Len(yielded) = total

\* ------------------------------------------------ claims C4, C5, C7..C10
Events(p, e, s) == {k \in 1..Len(ev[p]) : ev[p][k].e = e /\ ev[p][k].step = s}
Count(p, e, s) == Cardinality(Events(p, e, s))
CountAll(p, e) == Cardinality({k \in 1..Len(ev[p]) : ev[p][k].e = e})
Finished(p) == pc[p] \in {"done", "fatal"}
\* every section of the script can be run as soon as the collectives the
\* process has called are complete
CanAct(p) == ~Finished(p) /\ Ready(p)
IsPrefix(a, b) == Len(a) <= Len(b) /\ \A k \in 1..Len(a) : a[k] = b[k]

RECURSIVE ExpectedCollectives(_)
\* the collectives of steps s..num_iterations and of the clean-up, as the claim
\* counts them: one loss reduce per validation pass, one gradient reduce per
\* accumulation window, one final barrier
ExpectedCollectives(s) ==
    IF s > args.num_iterations THEN <<"barrier">>
    ELSE (IF s = args.num_iterations
             \/ (args.val_loss_every > 0 /\ s % args.val_loss_every = 0)
          THEN <<"all_reduce">> ELSE <<>>)
         \o (IF s < args.num_iterations THEN <<"grad_reduce">> ELSE <<>>)
         \o ExpectedCollectives(s + 1)

\* C4: all processes call the same collectives in the same order (the calls of
\* any two agree as far as both have got), a process that has finished has
\* called one loss reduce per validation pass, one gradient reduce per
\* accumulation window and one barrier, and unless every process has finished
\* some process can act: none waits in a collective the others never call.
C4_Lockstep ==
    /\ \A p \in Procs, q \in Procs :
          \A k \in 1..Len(issued[p]) :
              k <= Len(issued[q]) => issued[p][k] = issued[q][k]
    /\ \A p \in Procs : pc[p] = "done" => issued[p] = ExpectedCollectives(1)
    /\ (\A p \in Procs : Finished(p)) \/ (\E p \in Procs : CanAct(p))

C4_Witness ==
    /\ ddp_world_size >= 2
    /\ \A p \in Procs : pc[p] = "done"
    /\ Len(issued[0]) >= 5
    /\ Len(saved) >= 2

\* C5: in every accumulation window of N = train_accumulation_steps
\* micro-steps the backward pass synchronises gradients in the N-th micro-step,
\* the one whose is_last flag is set, and in no earlier one; a gradient reduce
\* happens only in a synchronising backward pass, so a window has at most one,
\* and exactly one once its N micro-steps are done.
C5_SyncGating ==
    \A p \in Procs :
        /\ \A k \in 1..Len(ev[p]) :
              /\ ev[p][k].e = "backward" =>
                    /\ ev[p][k].sync <=> ev[p][k].is_last
                    /\ ev[p][k].sync <=>
                          Cardinality({j \in Events(p, "backward", ev[p][k].step) :
                                          j <= k}) = train_accumulation_steps
              /\ ev[p][k].e = "grad_reduce" =>
                    /\ k > 1
                    /\ ev[p][k - 1].e = "backward"
                    /\ ev[p][k - 1].sync
                    /\ ev[p][k - 1].step = ev[p][k].step
        /\ \A s \in 1..args.num_iterations :
              /\ Count(p, "grad_reduce", s) <= 1
              /\ Count(p, "backward", s) = train_accumulation_steps =>
                    Count(p, "grad_reduce", s) = 1

C5_Witness ==
    \E p \in Procs :
        /\ train_accumulation_steps >= 2
        /\ Count(p, "backward", 1) = train_accumulation_steps
        /\ Count(p, "grad_reduce", 1) = 1
        /\ \E k \in Events(p, "backward", 1) : ~ev[p][k].sync

TrainKinds == {"backward", "grad_reduce", "clip_grad_norm", "optimizer_step",
               "zero_grad", "scheduler_step"}
WindowOrder(p, s) ==
    LET sel == SelectSeq(ev[p], LAMBDA x : x.step = s /\ x.e \in TrainKinds)
    IN  [k \in 1..Len(sel) |-> sel[k].e]
ExpectedWindowOrder ==
    [k \in 1..train_accumulation_steps |-> "backward"]
      \o <<"grad_reduce", "clip_grad_norm", "optimizer_step", "zero_grad",
           "scheduler_step">>

\* C7: in every accumulation window the gradient reduce comes after all the
\* backward passes of the window and before the optimizer update, what follows
\* is, in this order, clip gradients, Optimizer.step, zero gradients, advance
\* schedule, and no process applies the optimizer update of a window before
\* every process has joined the gradient reduce of that window.
C7_WindowOrder ==
    /\ \A p \in Procs : \A s \in 1..args.num_iterations :
          IsPrefix(WindowOrder(p, s), ExpectedWindowOrder)
    /\ \A p \in Procs, q \in Procs :
          CountAll(p, "optimizer_step") <= CountAll(q, "grad_reduce")

C7_Witness ==
    \E p \in Procs :
        /\ ddp_world_size >= 2
        /\ train_accumulation_steps >= 2
        /\ WindowOrder(p, 2) = ExpectedWindowOrder

ValDecided(p, s) == s <= step[p]

\* C8: a validation pass runs at step s, once, if and only if
\* s = num_iterations or (val_loss_every > 0 and s mod val_loss_every = 0);
\* so the final step runs one, and a run with val_loss_every = 0 runs one in all.
C8_ValidationTrigger ==
    \A p \in Procs :
        /\ \A s \in 1..args.num_iterations :
              /\ Count(p, "val_reset", s) =
                    (IF ValDecided(p, s)
                        /\ (s = args.num_iterations
                            \/ (args.val_loss_every > 0 /\ s % args.val_loss_every = 0))
                     THEN 1 ELSE 0)
              /\ Count(p, "all_reduce", s) = Count(p, "val_reset", s)
        /\ pc[p] = "done" =>
              /\ Count(p, "val_reset", args.num_iterations) = 1
              /\ args.val_loss_every = 0 => CountAll(p, "val_reset") = 1

C8_Witness ==
    \E p \in Procs :
        /\ pc[p] = "done"
        /\ args.num_iterations = 3
        /\ args.val_loss_every = 2
        /\ Count(p, "val_reset", 1) = 0
        /\ Count(p, "val_reset", 2) = 1
        /\ Count(p, "val_reset", 3) = 1

SaveDecided(p, s) ==
    s < step[p] \/ (s = step[p] /\ pc[p] # "checkpoint")

\* C9: a checkpoint of step s is written if and only if s = num_iterations or
\* (save_every > 0 and s mod save_every = 0); it is written once, by rank 0, to
\* the path made of the run id and the step, and a run with save_every = 0
\* writes one checkpoint, at the final step.
C9_CheckpointTrigger ==
    /\ \A p \in Procs : \A s \in 1..args.num_iterations :
          Count(p, "save", s) =
              (IF p = 0 /\ SaveDecided(p, s)
                  /\ (s = args.num_iterations
                      \/ (args.save_every > 0 /\ s % args.save_every = 0))
               THEN 1 ELSE 0)
    /\ Len(saved) = CountAll(0, "save")
    /\ \A k \in 1..Len(saved) :
          /\ saved[k].writer = 0
          /\ saved[k].path = <<"uuid", saved[k].step>>
          /\ Count(0, "save", saved[k].step) = 1
          /\ \A j \in 1..Len(saved) : saved[j].path = saved[k].path => j = k
    /\ (pc[0] = "done" /\ args.save_every = 0) =>
          (Len(saved) = 1 /\ saved[1].step = args.num_iterations)

C9_Witness ==
    /\ ddp_world_size >= 2
    /\ \A p \in Procs : pc[p] = "done"
    /\ args.num_iterations = 3
    /\ args.save_every = 2
    /\ Len(saved) = 2
    /\ saved[1].step = 2
    /\ saved[2].step = 3

MicroKinds == {"forward", "backward"}

\* C10: step runs over 1..n; training happens on the steps 1..n-1 only: each
\* of them has accumulation_steps forward and backward passes followed by one
\* optimizer update and one schedule advance, a finished run has made n-1
\* updates and n-1 schedule advances, and no micro-step follows the validation
\* or the checkpoint of the final step.
C10_StepMachine ==
    \A p \in Procs :
        /\ step[p] \in 0..args.num_iterations
        /\ \A k \in 1..Len(ev[p]) :
              ev[p][k].e \in MicroKinds \cup TrainKinds =>
                  ev[p][k].step \in 1..(args.num_iterations - 1)
        /\ \A s \in 1..(args.num_iterations - 1) :
              /\ Count(p, "optimizer_step", s) <= 1
              /\ Count(p, "scheduler_step", s) <= 1
              /\ (s < step[p] \/ Count(p, "optimizer_step", s) = 1) =>
                    /\ Count(p, "optimizer_step", s) = 1
                    /\ Count(p, "scheduler_step", s) = 1
                    /\ Count(p, "forward", s) = train_accumulation_steps
                    /\ Count(p, "backward", s) = train_accumulation_steps
                    /\ \A k \in Events(p, "forward", s) \cup Events(p, "backward", s) :
                          \A j \in Events(p, "optimizer_step", s) : k < j
        /\ \A k \in 1..Len(ev[p]) :
              (ev[p][k].e \in {"val_reset", "save"}
                 /\ ev[p][k].step = args.num_iterations) =>
                  \A j \in k..Len(ev[p]) : ev[p][j].e \notin MicroKinds
        /\ pc[p] = "done" =>
              /\ step[p] = args.num_iterations
              /\ CountAll(p, "optimizer_step") = args.num_iterations - 1
              /\ CountAll(p, "scheduler_step") = args.num_iterations - 1
              /\ CountAll(p, "forward")
                    = (args.num_iterations - 1) * train_accumulation_steps

C10_Witness ==
    \E p \in Procs :
        /\ pc[p] = "done"
        /\ args.num_iterations = 3
        /\ train_accumulation_steps = 2
        /\ CountAll(p, "optimizer_step") = 2
        /\ CountAll(p, "backward") = 4

\* ------------------------------------------------------------------ claim C11
LastEvent(p, e) ==
    CHOOSE k \in 1..Len(ev[p]) :
        ev[p][k].e = e /\ \A j \in (k + 1)..Len(ev[p]) : ev[p][j].e # e

\* every process has left the loop after the evaluation and checkpoint of
\* step num_iterations, has called the barrier once, after them, and has
\* destroyed the process group after the barrier
AllTornDown ==
    \A p \in Procs :
        /\ pc[p] = "done"
        /\ step[p] = args.num_iterations
        /\ Count(p, "val_reset", args.num_iterations) = 1
        /\ Count(0, "save", args.num_iterations) = 1
        /\ CountAll(p, "barrier") = 1
        /\ Len(SelectSeq(issued[p], LAMBDA c : c = "barrier")) = 1
        /\ issued[p][Len(issued[p])] = "barrier"
        /\ CountAll(p, "destroy_process_group") = 1
        /\ LastEvent(p, "all_reduce") < LastEvent(p, "barrier")
        /\ LastEvent(p, "barrier") < LastEvent(p, "destroy_process_group")
        /\ LastEvent(p, "destroy_process_group") = Len(ev[p])

\* C11: for every num_iterations >= 1 every process eventually reaches step
\* num_iterations, runs the evaluation and the checkpoint once more, leaves the
\* loop, and all processes join exactly one final barrier before the teardown.
C11_Termination == <>AllTornDown

C11_Witness ==
    /\ ddp_world_size >= 2
    /\ args.num_iterations >= 2
    /\ AllTornDown

\* ------------------------------------------------------------------ claim C12
Configured(p) == pc[p] # "configure"
Untouched(p) ==
    /\ train_loader[p] = NoLoader
    /\ val_loader[p] = NoLoader
    /\ step[p] = 0
    /\ ev[p] = <<>>
    /\ issued[p] = <<>>

\* C12: accumulation_steps is batch_size / (device_batch_size * world_size)
\* when that is integral (512, 64, 8 gives 1; 512, 64, 4 gives 2), and every
\* accumulation window then has that many micro-steps; when batch_size is not
\* divisible (512, 64, 3) the process ends in a fatal error before a reader is
\* constructed, a step is run or a collective is called.
C12_AccumulationConfig ==
    /\ AccumulationSteps(512, 64, 8) = 1
    /\ AccumulationSteps(512, 64, 4) = 2
    /\ 512 % (64 * 3) # 0
    /\ \A p \in Procs :
          IF args.batch_size % (args.device_batch_size * ddp_world_size) = 0
          THEN /\ train_accumulation_steps * args.device_batch_size * ddp_world_size
                     = args.batch_size
               /\ \A s \in 1..(args.num_iterations - 1) :
                     /\ Count(p, "backward", s) <= train_accumulation_steps
                     /\ Count(p, "optimizer_step", s) = 1 =>
                           Count(p, "backward", s) = train_accumulation_steps
          ELSE Configured(p) => (pc[p] = "fatal" /\ Untouched(p))

C12_Witness ==
    /\ ddp_world_size >= 2
    /\ args.val_tokens % (B * T * ddp_world_size) = 0
    /\ args.batch_size % (B * ddp_world_size) # 0
    /\ \A p \in Procs : pc[p] = "fatal" /\ Untouched(p)

\* ------------------------------------------------------------------ claim C13
\* the batch size the validation reader was constructed with
ValBatchSize == args.device_batch_size \div VAL_SCALING
ValPassDone(p, s) == Count(p, "all_reduce", s) = 1
ValCountIntegral == args.val_tokens % (ValBatchSize * T * ddp_world_size) = 0

\* C13: in every validation pass each rank reads
\* val_tokens / (val_batch_size * T * num_processes) batches of val_batch_size
\* sequences, val_batch_size being the batch size of the validation reader, so
\* that the ranks together consume val_tokens tokens; a configuration for which
\* that count is not an integer is rejected before training starts. (Stated
\* for the configurations whose validation reader has a batch size of at
\* least one, for which the quotient is defined.)
C13_ValBatchCount ==
    \A p \in Procs : ValBatchSize >= 1 =>
        /\ \A s \in 1..args.num_iterations :
              ValPassDone(p, s) =>
                  /\ \A k \in Events(p, "val_forward", s) :
                        Cardinality(ev[p][k].batch.x) = ValBatchSize * T
                  /\ Count(p, "val_forward", s) * ValBatchSize * T * ddp_world_size
                        = args.val_tokens
        /\ (~ValCountIntegral /\ Configured(p)) => (pc[p] = "fatal" /\ Untouched(p))

\* a pass of a run with device_batch_size = 5, one process and val_tokens = 5:
\* four batches of one token each
C13_Witness ==
    /\ ddp_world_size = 1
    /\ args.device_batch_size = 5
    /\ args.val_tokens = 5
    /\ ValPassDone(0, 1)
    /\ Count(0, "val_forward", 1) = 4
    /\ \A k \in Events(0, "val_forward", 1) : Cardinality(ev[0][k].batch.x) = 1

\* ------------------------------------------------------------ claims C14..C16
\* a file that passes every check of _load_data_shard
Sound(f) == f.magic = MAGIC /\ f.version = VERSION /\ f.len = f.ntok
ConstructionFailed == last.op = "init" /\ loader.status = "failed"

\* C14: a bad magic, a bad version, a declared token count that differs from
\* the number of tokens in the file, in any shard of the set, or an empty set,
\* makes the construction of the reader fail: no reader exists over such a set.
C14_EarlyDetection ==
    (Len(loader.files) = 0 \/ \E i \in 1..Len(loader.files) : ~Sound(loader.files[i]))
        => ConstructionFailed

\* a reader constructed over a set whose second file is shorter or longer than
\* its header says serves batches from the first and fails on its way to the second
C14_Witness ==
    /\ Len(loader.files) = 2
    /\ Sound(loader.files[1])
    /\ loader.files[2].len # loader.files[2].ntok
    /\ last.op = "next_batch"
    /\ Len(trace.batches) >= 2
    /\ loader.status = "failed"

\* C15: a reader that is alive holds the tokens of the file current_shard
\* names, and that file is sound; every batch served comes from a sound file;
\* advance(), called directly or by next_batch(), names the next file
\* cyclically and either loads it or terminates the process.
C15_NoSilentSkip ==
    /\ loader.status = "ok" =>
          /\ Sound(loader.files[loader.current_shard + 1])
          /\ loader.tokens = [name |-> loader.current_shard + 1,
                              len |-> loader.files[loader.current_shard + 1].ntok]
    /\ last.op = "next_batch" => Sound(loader.files[last.batch.shard])
    /\ \A k \in 1..Len(trace.batches) : Sound(loader.files[trace.batches[k].shard])
    /\ (last.op = "advance"
          \/ (last.op = "next_batch"
                /\ Where(loader) # [shard |-> last.pre.current_shard,
                                    position |-> last.pre.current_position
                                                   + Stride(last.pre)]))
         => /\ loader.current_shard
                  = (last.pre.current_shard + 1) % Len(loader.files)
            /\ loader.status = "ok" <=> Sound(loader.files[loader.current_shard + 1])

C15_Witness ==
    /\ Len(loader.files) = 2
    /\ last.op = "advance"
    /\ last.pre.current_shard = 0
    /\ loader.current_shard = 1
    /\ ~Sound(loader.files[2])
    /\ loader.status = "failed"

RECURSIVE SumDeclared(_, _)
SumDeclared(files, n) ==
    IF n = 0 THEN 0 ELSE SumDeclared(files, n - 1) + files[n].ntok

\* C16: once a reader has been constructed, ntok_total is the sum of the token
\* counts declared by the headers of the matched files, each counted once, and
\* no later reset, advance or next_batch changes it.
C16_Conservation ==
    ~ConstructionFailed =>
        /\ Len(loader.files) > 0
        /\ loader.ntok_total = SumDeclared(loader.files, Len(loader.files))
        /\ last.op # "init" =>
              /\ loader.ntok_total = last.pre.ntok_total
              /\ loader.files = last.pre.files

C16_Witness ==
    /\ Len(loader.files) = 2
    /\ loader.files[1].ntok # loader.files[2].ntok
    /\ last.op = "next_batch"
    /\ loader.current_shard = 1
    /\ loader.status = "ok"
    /\ loader.ntok_total = loader.files[1].ntok + loader.files[2].ntok

\* ------------------------------------------------------------ claims C18, C19
\* C18: over shards of at least num_processes*B*T + 1 tokens, after any calls
\* of reset, advance and next_batch, the reader is alive and
\* current_position + B*T + 1 <= length of the loaded shard; so a batch is a
\* slice of exactly B*T+1 consecutive tokens of one shard, the one that was
\* loaded, inputs and targets hold B*T tokens each, and the target of an input
\* is the token that follows it.
C18_InBounds ==
    /\ loader.status = "ok"
    /\ \A i \in 1..Len(loader.files) :
          loader.files[i].ntok >= loader.num_processes * loader.B * loader.T + 1
    /\ loader.current_position + loader.B * loader.T + 1 <= loader.tokens.len
    /\ last.op = "next_batch" =>
          LET pre == last.pre
              b == last.batch
              n == pre.B * pre.T
          IN  /\ b.shard = pre.files[pre.current_shard + 1].name
              /\ b.buf = pre.current_position..(pre.current_position + n)
              /\ Cardinality(b.buf) = n + 1
              /\ \A i \in b.buf : i < pre.tokens.len
              /\ Cardinality(b.x) = n
              /\ Cardinality(b.y) = n
              /\ b.y = {i + 1 : i \in b.x}

\* the last batch a shard can give, taken from the second shard: its slice
\* ends at the last token of the shard
C18_Witness ==
    /\ last.op = "next_batch"
    /\ last.pre.current_shard = 1
    /\ last.pre.current_position > last.pre.process_rank * last.pre.B * last.pre.T
    /\ last.pre.current_position + last.pre.B * last.pre.T + 1 = last.pre.tokens.len

\* C19: 0 <= current_shard < len(files); current_position is
\* process_rank*B*T + k*B*T*num_processes for some k >= 0; reset() leaves the
\* reader at (0, process_rank*B*T), advance() at
\* ((current_shard + 1) mod len(files), process_rank*B*T), onto the same shard
\* when there is only one; the loaded tokens are those of the shard
\* current_shard names.
C19_StreamPosition ==
    /\ loader.current_shard \in 0..(Len(loader.files) - 1)
    /\ \E k \in 0..MaxTok :
          loader.current_position
             = loader.process_rank * loader.B * loader.T
                 + k * loader.B * loader.T * loader.num_processes
    /\ last.op \in {"init", "reset"} =>
          Where(loader) = [shard |-> 0,
                           position |-> loader.process_rank * loader.B * loader.T]
    /\ last.op = "advance" =>
          Where(loader) = [shard |-> (last.pre.current_shard + 1) % Len(loader.files),
                           position |-> loader.process_rank * loader.B * loader.T]
    /\ loader.tokens = [name |-> loader.files[loader.current_shard + 1].name,
                        len |-> loader.files[loader.current_shard + 1].len]

\* advance() called on a reader of rank >= 1 over a single shard, in the
\* middle of it
C19_Witness ==
    /\ Len(loader.files) = 1
    /\ loader.process_rank >= 1
    /\ last.op = "advance"
    /\ last.pre.current_position > loader.current_position
    /\ Where(loader) = [shard |-> 0,
                        position |-> loader.process_rank * loader.B * loader.T]

\* ------------------------------------------------------------------ claim C20
\* every rank stands where reset() followed by k next_batch() calls leads
AllAfterResetAnd(k) ==
    \A r \in DOMAIN readers : readers[r] = AfterBatches(Reset(readers[r]), k)

\* C20: after reset() followed by k next_batch() calls on every rank, all
\* ranks have the same current_shard.
C20_WrapTogether ==
    \A k \in 0..MaxTrace :
        AllAfterResetAnd(k) =>
            \A r1 \in DOMAIN readers, r2 \in DOMAIN readers :
                readers[r1].current_shard = readers[r2].current_shard

\* two ranks of a world of two, B = T = 1, over a first shard of 5 tokens: one
\* next_batch() after reset() leaves rank 0 in the first shard and rank 1 in
\* the second
C20_Witness ==
    /\ DOMAIN readers = {0, 1}
    /\ readers[0].num_processes = 2
    /\ readers[0].B = 1 /\ readers[0].T = 1
    /\ Len(readers[0].files) = 2
    /\ readers[0].files[1].ntok = 5
    /\ AllAfterResetAnd(1)
    /\ Cardinality(pass[0].batches) = 1
    /\ Cardinality(pass[1].batches) = 1
    /\ readers[0].current_shard = 0
    /\ readers[1].current_shard = 1

\* ------------------------------------------------------------------ claim C21
\* the batches given to Model.forward by the training micro-steps of p, in order
Fed(p) ==
    LET sel == SelectSeq(ev[p], LAMBDA x : x.e = "forward")
    IN  [i \in 1..Len(sel) |-> sel[i].batch]
\* the first n batches of the train reader of p counted from a reset()
TrainStream(p, n) == BatchesFrom(Reset(train_loader[p]), n)

\* C21: the i-th training micro-step of the run is fed the i-th batch the
\* train reader produces counted from the reset() before the loop: no batch
\* is given to Model.forward twice in a row and none is skipped.
C21_StreamInOrder ==
    \A p \in Procs :
        train_loader[p].status = "ok" => Fed(p) = TrainStream(p, Len(Fed(p)))

\* the first two micro-steps of a run have both been fed the first batch of
\* the stream, and the third the second batch
C21_Witness ==
    \E p \in Procs :
        /\ ddp_world_size >= 2
        /\ Len(Fed(p)) >= 3
        /\ Fed(p)[1] = TrainStream(p, 2)[1]
        /\ Fed(p)[2] = TrainStream(p, 2)[1]
        /\ Fed(p)[3] = TrainStream(p, 2)[2]
        /\ TrainStream(p, 2)[1] # TrainStream(p, 2)[2]

\* ------------------------------------------------------------------ claim C22
\* C22: a step in which a process runs a validation pass leaves its train
\* reader as it was, a step in which it runs a training micro-step leaves its
\* validation reader as it was, and the readers of a process change only in
\* steps of that process: the train reader by its construction, reset() or
\* next_batch(), the validation reader by its construction or by the reset()
\* and next_batch() calls of a validation pass.
C22_ReaderIsolation ==
    [][\A p \in Procs :
          /\ CountAll(p, "val_reset")' > CountAll(p, "val_reset") =>
                /\ train_loader'[p] = train_loader[p]
                /\ val_loader'[p]
                      = AfterBatches(Reset(val_loader[p]), val_steps * VAL_SCALING)
          /\ CountAll(p, "forward")' > CountAll(p, "forward") =>
                /\ val_loader'[p] = val_loader[p]
                /\ train_loader'[p] = NextBatch(train_loader[p]).self
          /\ train_loader'[p] # train_loader[p] =>
                /\ pc[p] \in {"load_tokens", "setup", "micro_step"}
                /\ pc'[p] # pc[p] \/ ev'[p] # ev[p]
          /\ val_loader'[p] # val_loader[p] =>
                /\ pc[p] \in {"load_tokens", "for_step"}
                /\ pc'[p] # pc[p] \/ ev'[p] # ev[p]
          /\ \A q \in Procs \ {p} :
                (pc'[q] # pc[q] \/ ev'[q] # ev[q]) =>
                    /\ train_loader'[p] = train_loader[p]
                    /\ val_loader'[p] = val_loader[p]
      ]_vars

\* the validation pass of step 2 has just run in a process whose train reader
\* has been moved by the micro-steps of step 1, while another process is
\* still training
C22_Witness ==
    \E p \in Procs, q \in Procs :
        /\ step[p] = 2
        /\ pc[p] = "checkpoint"
        /\ Count(p, "val_reset", 2) = 1
        /\ train_loader[p] # Reset(train_loader[p])
        /\ val_loader[p] # Reset(val_loader[p])
        /\ q # p
        /\ pc[q] = "micro_step"
        /\ step[q] = 1

====
